---- MODULE Spec2Model ----
(***************************************************************************)
(* Checkpointed batch orchestrator of TxtLungNoduleExtractor               *)
(* (core.batch_predict, core.CheckpointManager, core.predict_single and    *)
(* the worker pool it drives) together with its caller                     *)
(* gui.MedicalPredictorGUI.run_prediction.                                 *)
(*                                                                         *)
(* One job (one model path, one dataset) is run up to MaxRuns times; a run *)
(* ends by returning, by a KeyboardInterrupt or by an exception, and the   *)
(* next run of the job starts from whatever checkpoint file is on disk.    *)
(***************************************************************************)
EXTENDS Integers, FiniteSets, Sequences, TLC

\* ------------------------------------------------------------------ bounds
NumRows == 3        \* len(df)
MaxRuns == 2        \* runs of the job in one behaviour
SaveInterval == 2   \* config.CHECKPOINT_SAVE_INTERVAL of the modelled runs
PoolSize == 2       \* config.PROCESS_POOL_MAX_WORKERS of a pooled run

\* ------------------------------------------------------------ basic values
\* Python's None in a prediction slot: both "never attempted" and "attempted,
\* no measurement" are this one value in the code.
None == -1

Indices == 0 .. (NumRows - 1)

\* The worker processes of a ProcessPoolExecutor(max_workers=PoolSize). Each
\* process has its own module global _worker_llm; instance <<w, k>> is the
\* k-th Llama object constructed in process w.
Workers == 1 .. PoolSize
NoLlm == <<0, 0>>
Unborn == [state |-> "unborn", llm |-> NoLlm, inits |-> 0, task |-> None]
NotHandled == [worker |-> 0, llm |-> NoLlm]

\* The datasets of the model: row i holds text i+1, except that at most one
\* row holds text 0, the text on which the inference call raises.
Datasets ==
    { [i \in Indices |-> IF i = f THEN 0 ELSE i + 1] : f \in 0 .. NumRows }

\* The inference capability, deterministic in its input: llm(prompt) raises on
\* text 0 and otherwise generates text from which extract_max_value reads
\* 10 * text.
LlmRaises(text) == text = 0

\* llm(prompt) that never returns: the call takes no timeout, and
\* config.LLAMA_BATCH_TIMEOUT is read nowhere. Row i of such a dataset holds
\* text -(i + 2).
LlmHangs(text) == text < None
HangDatasets ==
    { [i \in Indices |-> IF i = h THEN None - (i + 1) ELSE i + 1] : h \in Indices }
LlmThenExtract(text) == 10 * text

\* predict_single: preprocessing and prompt construction run outside the try
\* block, so a fault of prompt_template.format propagates ("exc"); the llm call
\* and extract_max_value run inside it, and a fault there gives (None, 0.0).
PredictSingle_NoTry(text, templateOk) ==
    IF ~templateOk \/ LlmRaises(text)
    THEN [exc |-> TRUE, pred |-> None, time |-> 0]
    ELSE [exc |-> FALSE, pred |-> LlmThenExtract(text), time |-> 1]

predict_single(text, templateOk) ==
    IF ~templateOk THEN [exc |-> TRUE, pred |-> None, time |-> 0]
    ELSE IF LlmRaises(text) THEN [exc |-> FALSE, pred |-> None, time |-> 0]
    ELSE [exc |-> FALSE, pred |-> LlmThenExtract(text), time |-> 1]

\* ------------------------------------------------------- CheckpointManager
EmptyVector == [i \in Indices |-> None]

\* No checkpoint file.
Absent ==
    [exists |-> FALSE, content |-> "none", predictions |-> EmptyVector,
     processed_indices |-> {}, total_time |-> 0]

\* save_checkpoint: the file is overwritten with the complete record.
save_checkpoint(p, s, t) ==
    [exists |-> TRUE, content |-> "record", predictions |-> p,
     processed_indices |-> s, total_time |-> t]

\* A file that open(path, 'wb') has truncated and pickle.dump has not
\* completed: pickle.load raises on it.
Truncated ==
    [exists |-> TRUE, content |-> "truncated", predictions |-> EmptyVector,
     processed_indices |-> {}, total_time |-> 0]

\* A file that unpickles to a dict without the 'predictions' key.
Partial ==
    [exists |-> TRUE, content |-> "partial", predictions |-> EmptyVector,
     processed_indices |-> {}, total_time |-> 0]

\* clear_checkpoint: unlink if the file exists.
clear_checkpoint(file) == Absent

\* What a save_checkpoint call can leave on disk. On a faulty disk open() may
\* raise (the old file stays) or pickle.dump may raise after the truncation;
\* both are caught by "except Exception" (lines 219-223).
SaveOutcomes(faulty, file, p, s, t) ==
    IF faulty THEN {save_checkpoint(p, s, t), file, Truncated}
    ELSE {save_checkpoint(p, s, t)}

\* What a clear_checkpoint call can leave on disk: unlink() may raise on a
\* faulty disk, caught by "except Exception" (lines 244-247).
ClearOutcomes(faulty, file) ==
    IF faulty THEN {clear_checkpoint(file), file}
    ELSE {clear_checkpoint(file)}

\* Whether an exception inside save_checkpoint / clear_checkpoint leaves the
\* call: it does not, both print and return.
StoreFaultRaises_Uncaught == TRUE
StoreFaultRaises == FALSE

\* Model names (Path(model_path).stem) that share the checkpoint directory.
ModelNames == {"m1", "m2"}

\* get_checkpoint_path: checkpoint_dir / f"{model_name}_checkpoint.pkl".
get_checkpoint_path_Shared(model_name) ==
    <<"checkpoints", "model", "_checkpoint.pkl">>
get_checkpoint_path(model_name) ==
    <<"checkpoints", model_name, "_checkpoint.pkl">>

Paths == {get_checkpoint_path(n) : n \in ModelNames}

\* No job, and the state of the directory's user when no batch_predict call
\* is under way.
NoJob == <<<<"none", "none">>, "none">>
Idle ==
    [phase |-> "idle", model_path |-> <<"none", "none">>,
     df |-> [id |-> "none", len |-> 0], predictions |-> <<>>,
     processed_indices |-> {}, from |-> NoJob, clobbered |-> FALSE,
     retval |-> "none"]

VARIABLES
    dataset,            \* df['yxbx'], fixed for the job
    diskFaulty,         \* writes and unlinks in the checkpoint directory may fail
    templateOk,         \* config.PROMPT_TEMPLATE formats without raising
    checkpoint,         \* the job's checkpoint file on disk
    runs,               \* runs started so far
    max_workers,        \* 1 (sequential) or PoolSize (pooled), per run
    pc,                 \* position of the orchestrator / its caller
    predictions, processed_indices, total_time, processed_count,
    idx, pred_value, infer_time,
    pending, running, done, failed,   \* futures of the executor
    is_running,         \* the GUI's flag
    retval,             \* how batch_predict ended
    output,             \* what the caller wrote to the output table
    \* history of the current run
    loaded,             \* processed set the run started from
    calls,              \* inference invocations per index
    signal,             \* where the stop signal arrived
    atSignal,           \* processed set when the signal arrived
    lateStarts,         \* items that began executing after the signal
    lastSave,           \* kind of the last save issued
    clears,             \* clear_checkpoint calls
    resumed,            \* the run started from a checkpoint
    outOfOrder,         \* an item was collected before a lower-indexed one
    broken,             \* the worker pool broke
    ioFailed,           \* a save or clear of this run failed
    \* the checkpoint directory as a whole
    store,              \* file at every checkpoint path
    stored,             \* per model name: last save since its last clear
    got,                \* the last load: model name, result, and the
                        \* last save since the last clear at that time
    batch,              \* the batch_predict call using the directory
    owner,              \* per path: the job whose save wrote the file
    \* one call of extract_max_value
    text,               \* the generated text, a sequence of tokens
    raw_text,           \* the raw text, a sequence of tokens
    extracted,          \* whether the call has returned, and its value
    \* the preprocessing of one input text
    processed_input,    \* the input text and its value after each step
    \* the worker processes of the executor
    worker,             \* per process: its state, its _worker_llm, its task
    handled             \* per index: the process that ran it, and with what

vars == <<dataset, diskFaulty, templateOk, checkpoint, runs, max_workers, pc,
          predictions, processed_indices, total_time, processed_count,
          idx, pred_value, infer_time, pending, running, done, failed,
          is_running, retval, output, loaded, calls, signal, atSignal,
          lateStarts, lastSave, clears, resumed, outOfOrder, broken,
          ioFailed, store, stored, got, batch, owner, text, raw_text, extracted,
          processed_input, worker, handled>>

disk   == <<store, stored, got, batch, owner>>
call   == <<text, raw_text, extracted, processed_input>>
procs  == <<worker, handled>>
config == <<dataset, diskFaulty, templateOk>>
memory == <<predictions, processed_indices, total_time, processed_count>>
locals == <<idx, pred_value, infer_time>>
pool   == <<pending, running, done, failed>>
marks  == <<resumed, outOfOrder, broken>>
hist   == <<loaded, calls, signal, atSignal, lateStarts, lastSave, clears,
            marks, ioFailed>>

\* The state before the first run of the job, on a disk that is faulty or
\* not, with `file` at the job's checkpoint path.
InitRun(data, faulty, file) ==
    /\ dataset \in data
    /\ diskFaulty = faulty
    /\ templateOk \in BOOLEAN
    /\ checkpoint = file
    /\ runs = 0
    /\ max_workers = 1
    /\ pc = "idle"
    /\ predictions = EmptyVector
    /\ processed_indices = {}
    /\ total_time = 0
    /\ processed_count = 0
    /\ idx = 0 /\ pred_value = None /\ infer_time = 0
    /\ pending = {} /\ running = {} /\ done = {} /\ failed = {}
    /\ is_running = FALSE
    /\ retval = "none"
    /\ output = "none"
    /\ loaded = {}
    /\ calls = [i \in Indices |-> 0]
    /\ signal = "none"
    /\ atSignal = {}
    /\ lateStarts = {}
    /\ lastSave = "none"
    /\ clears = 0
    /\ resumed = FALSE /\ outOfOrder = FALSE /\ broken = FALSE
    /\ ioFailed = FALSE
    /\ store = [path \in Paths |-> Absent]
    /\ stored = [n \in ModelNames |-> Absent]
    /\ got = [name |-> "none", record |-> Absent, expected |-> Absent]
    /\ batch = Idle
    /\ owner = [path \in Paths |-> NoJob]
    /\ worker = [w \in Workers |-> Unborn]
    /\ handled = [i \in Indices |-> NotHandled]

\* A sound disk and no checkpoint file.
\* No call of extract_max_value under way.
NoCall ==
    /\ text = <<>>
    /\ raw_text = <<>>
    /\ extracted = [returned |-> FALSE, value |-> None,
                    mainReturned |-> FALSE, main |-> None]
    /\ processed_input = <<>>

InitJob(faulty, file) == InitRun(Datasets, faulty, file) /\ NoCall

Init == InitJob(FALSE, Absent)

\* load_checkpoint: None when there is no file or pickle.load raises, otherwise
\* whatever was unpickled.
load_checkpoint(file) ==
    IF file.exists /\ file.content # "truncated" THEN file ELSE Absent

\* Lines 276-286: rehydrate from the checkpoint, or allocate [None] * len(df),
\* set() and 0.
InitialState_FreshVector(ck) ==
    [predictions |-> EmptyVector,
     processed_indices |-> IF ck.exists THEN ck.processed_indices ELSE {},
     total_time |-> IF ck.exists THEN ck.total_time ELSE 0]
InitialState(ck) ==
    IF ck.exists
    THEN [predictions |-> ck.predictions,
          processed_indices |-> ck.processed_indices,
          total_time |-> ck.total_time]
    ELSE [predictions |-> EmptyVector, processed_indices |-> {},
          total_time |-> 0]

\* checkpoint['predictions'] (line 277) raises KeyError on a loaded dict that
\* lacks the key; nothing catches it inside batch_predict.
RehydrateRaises(ck) == ck.exists /\ ck.content = "partial"

\* gui.start_prediction + run_prediction up to the call, then batch_predict
\* lines 264-288: load the checkpoint, rehydrate or allocate.
StartRun ==
    /\ pc = "idle"
    /\ runs < MaxRuns
    /\ runs' = runs + 1
    /\ max_workers' \in {1, PoolSize}
    /\ is_running' = TRUE
    /\ LET st == InitialState(load_checkpoint(checkpoint)) IN
       /\ predictions' = st.predictions
       /\ processed_indices' = st.processed_indices
       /\ total_time' = st.total_time
    /\ resumed' = (load_checkpoint(checkpoint).exists
                    /\ ~RehydrateRaises(load_checkpoint(checkpoint)))
    /\ outOfOrder' = FALSE
    /\ broken' = FALSE
    /\ ioFailed' = FALSE
    /\ processed_count' = 0
    /\ idx' = 0 /\ pred_value' = None /\ infer_time' = 0
    /\ pending' = {} /\ running' = {} /\ done' = {} /\ failed' = {}
    /\ retval' = IF RehydrateRaises(load_checkpoint(checkpoint))
                 THEN "Exception" ELSE "none"
    /\ output' = "none"
    /\ loaded' = processed_indices'
    /\ calls' = [i \in Indices |-> 0]
    /\ signal' = "none"
    /\ atSignal' = {}
    /\ lateStarts' = {}
    /\ lastSave' = "none"
    /\ clears' = 0
    /\ pc' = IF RehydrateRaises(load_checkpoint(checkpoint)) THEN "done"
             ELSE IF max_workers' <= 1 THEN "seq_llama" ELSE "pool_tasks"
    /\ UNCHANGED <<procs, call, disk, config, checkpoint>>

\* The slot written for the result of the item with index i, the k-th item
\* collected in this run: predictions[idx] = pred_value.
SlotOf_Append(i, k) == IF k < NumRows THEN k ELSE i
SlotOf(i, k) == i

\* "if idx in processed_indices: continue" / "if idx not in processed_indices".
AlreadyProcessed_Never(i, s) == FALSE
AlreadyProcessed(i, s) == i \in s

\* Where the KeyboardInterrupt handler leaves batch_predict: it re-raises.
InterruptHandlerExit_NoRaise == "final_save"
InterruptHandlerExit == "done"

\* checkpoint_manager.save_checkpoint(model_name, predictions,
\* processed_indices, total_time), issued as `kind`; batch_predict then goes on
\* at nextPc with nextRet, whether or not the write succeeded.
Save(kind, nextPc, nextRet) ==
    \E f \in SaveOutcomes(diskFaulty, checkpoint, predictions,
                          processed_indices, total_time) :
        LET wrote == f = save_checkpoint(predictions, processed_indices,
                                         total_time) IN
        /\ checkpoint' = f
        /\ lastSave' = kind
        /\ ioFailed' = (ioFailed \/ ~wrote)
        /\ IF StoreFaultRaises /\ ~wrote
           THEN pc' = "done" /\ retval' = "Exception"
           ELSE pc' = nextPc /\ retval' = nextRet

\* except KeyboardInterrupt (lines 328-334, 376-382): save, then raise.
InterruptHandler ==
    Save("interrupt", InterruptHandlerExit,
         IF InterruptHandlerExit = "done" THEN "KeyboardInterrupt" ELSE retval)

\* except Exception (lines 335-342, 383-390): save, then raise.
ExceptionHandler ==
    Save("error", "done", "Exception")

\* ------------------------------------------------------- sequential mode
\* Llama(...) succeeds (lines 293-301).
SeqLlamaLoads ==
    /\ pc = "seq_llama"
    /\ pc' = "seq_loop"
    /\ UNCHANGED <<procs, call, disk, config, checkpoint, runs, max_workers, memory, locals, pool,
                   is_running, retval, output, hist>>

\* Llama(...) raises (lines 302-304): return None, 0.0, model_name.
SeqLlamaFails ==
    /\ pc = "seq_llama"
    /\ retval' = "None"
    /\ pc' = "done"
    /\ UNCHANGED <<procs, call, disk, config, checkpoint, runs, max_workers, memory, locals, pool,
                   is_running, output, hist>>

\* for idx, row in df.iterrows(): if idx in processed_indices: continue
SeqLoop ==
    /\ pc = "seq_loop"
    /\ IF idx = NumRows
       THEN pc' = "final_save" /\ idx' = idx
       ELSE IF AlreadyProcessed(idx, processed_indices)
       THEN pc' = pc /\ idx' = idx + 1
       ELSE pc' = "seq_predict" /\ idx' = idx
    /\ UNCHANGED <<procs, call, disk, config, checkpoint, runs, max_workers, memory, pred_value,
                   infer_time, pool, is_running, retval, output, hist>>

\* pred_value, infer_time = predict_single(llm, input_text, PROMPT_TEMPLATE);
\* an exception leaving predict_single reaches "except Exception".
SeqPredict ==
    /\ pc = "seq_predict"
    /\ ~(templateOk /\ LlmHangs(dataset[idx]))
    /\ calls' = [calls EXCEPT ![idx] = @ + 1]
    /\ LET r == predict_single(dataset[idx], templateOk) IN
       IF r.exc
       THEN /\ ExceptionHandler
            /\ UNCHANGED <<pred_value, infer_time>>
       ELSE /\ pred_value' = r.pred
            /\ infer_time' = r.time
            /\ pc' = "seq_write"
            /\ UNCHANGED <<checkpoint, lastSave, ioFailed, retval>>
    /\ UNCHANGED <<procs, call, disk, config, runs, max_workers, memory, idx, pool, is_running,
                   output, loaded, signal, atSignal, lateStarts, clears, marks>>

\* predictions[idx] = pred_value
Write(at, next) ==
    /\ pc = at
    /\ predictions' =
          [predictions EXCEPT ![SlotOf(idx, processed_count)] = pred_value]
    /\ pc' = next
    /\ UNCHANGED <<procs, call, disk, config, checkpoint, runs, max_workers, processed_indices,
                   total_time, processed_count, locals, pool, is_running,
                   retval, output, hist>>

\* total_time += infer_time
Time(at, next) ==
    /\ pc = at
    /\ total_time' = total_time + infer_time
    /\ pc' = next
    /\ UNCHANGED <<procs, call, disk, config, checkpoint, runs, max_workers, predictions,
                   processed_indices, processed_count, locals, pool,
                   is_running, retval, output, hist>>

\* processed_indices.add(idx)
Add(at, next) ==
    /\ pc = at
    /\ processed_indices' = processed_indices \cup {idx}
    /\ outOfOrder' =
          (outOfOrder \/ \E j \in Indices : j < idx /\ j \notin processed_indices)
    /\ pc' = next
    /\ UNCHANGED <<procs, call, disk, config, checkpoint, runs, max_workers, predictions,
                   total_time, processed_count, locals, pool, is_running,
                   retval, output, loaded, calls, signal, atSignal, lateStarts,
                   lastSave, ioFailed, clears, resumed, broken>>

\* if processed_count % save_interval == 0
PeriodicSaveDue_Always(count) == TRUE
PeriodicSaveDue(count) == count % SaveInterval = 0

\* processed_count += 1; if processed_count % save_interval == 0: save.
\* The iteration's locals are dead afterwards and are reset.
Count(at, next, nextIdx) ==
    /\ pc = at
    /\ processed_count' = processed_count + 1
    /\ IF PeriodicSaveDue(processed_count')
       THEN Save("periodic", next, retval)
       ELSE pc' = next /\ UNCHANGED <<checkpoint, lastSave, ioFailed, retval>>
    /\ idx' = nextIdx
    /\ pred_value' = None
    /\ infer_time' = 0
    /\ UNCHANGED <<procs, call, disk, config, runs, max_workers, predictions, processed_indices,
                   total_time, pool, is_running, output, loaded, calls,
                   signal, atSignal, lateStarts, clears, marks>>

SeqWrite == Write("seq_write", "seq_time")
SeqTime  == Time("seq_time", "seq_add")
SeqAdd   == Add("seq_add", "seq_count")
SeqCount == Count("seq_count", "seq_loop", idx + 1)

SeqTry == {"seq_loop", "seq_predict", "seq_write", "seq_time", "seq_add",
           "seq_count"}

\* KeyboardInterrupt inside the sequential try block.
SeqInterrupt ==
    /\ pc \in SeqTry
    /\ signal' = pc
    /\ atSignal' = processed_indices
    /\ InterruptHandler
    /\ UNCHANGED <<procs, call, disk, config, runs, max_workers, memory, locals, pool, is_running,
                   output, loaded, calls, lateStarts, clears, marks>>

\* ----------------------------------------------------------- pooled mode
\* tasks = [... if idx not in processed_indices]; if not tasks: done;
\* else the executor is created and every task is submitted.
PoolTasks ==
    /\ pc = "pool_tasks"
    /\ LET tasks == {i \in Indices : ~AlreadyProcessed(i, processed_indices)} IN
       IF tasks = {}
       THEN pc' = "final_save" /\ pending' = pending
       ELSE pc' = "pool_wait" /\ pending' = tasks
    /\ UNCHANGED <<procs, call, disk, config, checkpoint, runs, max_workers, memory, locals,
                   running, done, failed, is_running, retval, output, hist>>

PoolAlive == {"pool_wait", "pool_write", "pool_time", "pool_add", "pool_count",
              "pool_exit_interrupt", "pool_exit_exception"}

\* A worker process takes the next queued task: _worker_predict begins.
WorkerStart(i) ==
    /\ pc \in PoolAlive
    /\ i \in pending
    /\ Cardinality(running) < max_workers
    /\ pending' = pending \ {i}
    /\ running' = running \cup {i}
    /\ calls' = [calls EXCEPT ![i] = @ + 1]
    /\ lateStarts' = IF signal # "none" THEN lateStarts \cup {i} ELSE lateStarts
    /\ UNCHANGED <<procs, call, disk, config, checkpoint, runs, max_workers, pc, memory, locals,
                   done, failed, is_running, retval, output, loaded, signal,
                   atSignal, lastSave, ioFailed, clears, marks>>

\* _worker_predict returns (idx, pred_value, infer_time), or raises and the
\* future holds the exception.
WorkerFinish(i) ==
    /\ pc \in PoolAlive
    /\ i \in running
    /\ ~(templateOk /\ LlmHangs(dataset[i]))
    /\ running' = running \ {i}
    /\ IF predict_single(dataset[i], templateOk).exc
       THEN failed' = failed \cup {i} /\ done' = done
       ELSE done' = done \cup {i} /\ failed' = failed
    /\ UNCHANGED <<procs, call, disk, config, checkpoint, runs, max_workers, pc, memory, locals,
                   pending, is_running, retval, output, hist>>

\* _worker_init raises (model load) or a worker process dies: the pool is
\* broken and every unfinished future fails with BrokenProcessPool.
WorkerBreaks ==
    /\ pc \in PoolAlive
    /\ pending \cup running # {}
    /\ failed' = failed \cup pending \cup running
    /\ pending' = {}
    /\ running' = {}
    /\ broken' = TRUE
    /\ UNCHANGED <<procs, call, disk, config, checkpoint, runs, max_workers, pc, memory, locals,
                   done, is_running, retval, output, loaded, calls, signal,
                   atSignal, lateStarts, lastSave, ioFailed, clears, resumed, outOfOrder>>

\* for future in as_completed(futures): idx, pred_value, infer_time =
\* future.result()
PoolCollect(i) ==
    /\ pc = "pool_wait"
    /\ i \in done
    /\ done' = done \ {i}
    /\ idx' = i
    /\ pred_value' = predict_single(dataset[i], templateOk).pred
    /\ infer_time' = predict_single(dataset[i], templateOk).time
    /\ pc' = "pool_write"
    /\ UNCHANGED <<procs, call, disk, config, checkpoint, runs, max_workers, memory, pending,
                   running, failed, is_running, retval, output, hist>>

\* future.result() re-raises the future's exception; the with block is left.
PoolCollectRaises(i) ==
    /\ pc = "pool_wait"
    /\ i \in failed
    /\ failed' = failed \ {i}
    /\ pc' = "pool_exit_exception"
    /\ UNCHANGED <<procs, call, disk, config, checkpoint, runs, max_workers, memory, locals,
                   pending, running, done, is_running, retval, output, hist>>

\* as_completed is exhausted: the with block ends normally.
PoolLoopEnd ==
    /\ pc = "pool_wait"
    /\ pending \cup running \cup done \cup failed = {}
    /\ pc' = "final_save"
    /\ UNCHANGED <<procs, call, disk, config, checkpoint, runs, max_workers, memory, locals, pool,
                   is_running, retval, output, hist>>

PoolWrite == Write("pool_write", "pool_time")
PoolTime  == Time("pool_time", "pool_add")
PoolAdd   == Add("pool_add", "pool_count")
PoolCount == Count("pool_count", "pool_wait", 0)

PoolTry == {"pool_wait", "pool_write", "pool_time", "pool_add", "pool_count"}

\* KeyboardInterrupt inside the pooled try block: the with block is left
\* first, and ProcessPoolExecutor.__exit__ is shutdown(wait=True).
PoolInterrupt ==
    /\ pc \in PoolTry
    /\ signal' = pc
    /\ atSignal' = processed_indices
    /\ pc' = "pool_exit_interrupt"
    /\ UNCHANGED <<procs, call, disk, config, checkpoint, runs, max_workers, memory, locals, pool,
                   is_running, retval, output, loaded, calls, lateStarts,
                   lastSave, ioFailed, clears, marks>>

\* shutdown(wait=True) returns once no submitted task is queued or running
\* (queued futures are not cancelled); then "except KeyboardInterrupt" runs.
PoolExitInterrupt ==
    /\ pc = "pool_exit_interrupt"
    /\ pending \cup running = {}
    /\ InterruptHandler
    /\ done' = {} /\ failed' = {}
    /\ UNCHANGED <<procs, call, disk, config, runs, max_workers, memory, locals, pending, running,
                   is_running, output, loaded, calls, signal, atSignal,
                   lateStarts, clears, marks>>

\* The same exit for an exception of future.result(); then "except Exception".
PoolExitException ==
    /\ pc = "pool_exit_exception"
    /\ pending \cup running = {}
    /\ ExceptionHandler
    /\ done' = {} /\ failed' = {}
    /\ UNCHANGED <<procs, call, disk, config, runs, max_workers, memory, locals, pending, running,
                   is_running, output, loaded, calls, signal, atSignal,
                   lateStarts, clears, marks>>

\* ------------------------------------------------------------ completion
\* Lines 392-395: the final save.
FinalSave ==
    /\ pc = "final_save"
    /\ Save("final", "clear", retval)
    /\ UNCHANGED <<procs, call, disk, config, runs, max_workers, memory, locals, pool, is_running,
                   output, loaded, calls, signal, atSignal, lateStarts,
                   clears, marks>>

\* Lines 401-404: clear_checkpoint, then return predictions.
Clear ==
    /\ pc = "clear"
    /\ \E f \in ClearOutcomes(diskFaulty, checkpoint) :
          /\ checkpoint' = f
          /\ ioFailed' = (ioFailed \/ f.exists)
          /\ retval' = IF StoreFaultRaises /\ f.exists THEN "Exception"
                       ELSE "predictions"
    /\ clears' = clears + 1
    /\ pc' = "done"
    /\ UNCHANGED <<procs, call, disk, config, runs, max_workers, memory, locals, pool, is_running,
                   output, loaded, calls, signal, atSignal, lateStarts,
                   lastSave, marks>>

\* KeyboardInterrupt outside both try blocks (model loading, task listing, the
\* final save and clear): no handler, it propagates.
OutsideTry == {"seq_llama", "pool_tasks", "final_save", "clear"}

InterruptOutsideTry ==
    /\ pc \in OutsideTry
    /\ signal = "none"
    /\ signal' = pc
    /\ atSignal' = processed_indices
    /\ retval' = "KeyboardInterrupt"
    /\ pc' = "done"
    /\ UNCHANGED <<procs, call, disk, config, checkpoint, runs, max_workers, memory, locals, pool,
                   is_running, output, loaded, calls, lateStarts, lastSave, ioFailed,
                   clears, marks>>

\* ------------------------------------------------- gui.run_prediction
\* After batch_predict: df[col_name] = preds; if self.is_running: to_excel.
\* An exception skips both; finally reset_ui.
CallerContinues ==
    /\ pc = "done"
    /\ output' = IF retval \in {"predictions", "None"} /\ is_running
                 THEN retval ELSE output
    /\ is_running' = FALSE
    /\ pc' = "idle"
    /\ UNCHANGED <<procs, call, disk, config, checkpoint, runs, max_workers, memory, locals, pool,
                   retval, hist>>

\* gui.stop_prediction. The flag is read only after batch_predict has returned
\* (line 346), so a press at any moment of the run is taken at the last point
\* before that read.
StopPressed ==
    /\ pc = "done"
    /\ is_running
    /\ is_running' = FALSE
    /\ UNCHANGED <<procs, call, disk, config, checkpoint, runs, max_workers, pc, memory, locals,
                   pool, retval, output, hist>>

Next ==
    \/ StartRun
    \/ SeqLlamaLoads \/ SeqLlamaFails
    \/ SeqLoop \/ SeqPredict \/ SeqWrite \/ SeqTime \/ SeqAdd \/ SeqCount
    \/ SeqInterrupt
    \/ PoolTasks
    \/ \E i \in Indices : WorkerStart(i) \/ WorkerFinish(i)
    \/ WorkerBreaks
    \/ \E i \in Indices : PoolCollect(i) \/ PoolCollectRaises(i)
    \/ PoolLoopEnd
    \/ PoolWrite \/ PoolTime \/ PoolAdd \/ PoolCount
    \/ PoolInterrupt \/ PoolExitInterrupt \/ PoolExitException
    \/ FinalSave \/ Clear
    \/ InterruptOutsideTry
    \/ CallerContinues
    \/ StopPressed

Spec == Init /\ [][Next]_vars

\* The same job on a disk whose writes and unlinks may fail, started with no
\* checkpoint file or with an unusable one left at the job's path.
InitIO == \E file \in {Absent, Truncated, Partial} : InitJob(TRUE, file)

SpecIO == InitIO /\ [][Next]_vars

\* The same job when the inference call on one row may never return.
InitHang == InitRun(Datasets \cup HangDatasets, FALSE, Absent) /\ NoCall

SpecHang == InitHang /\ [][Next]_vars

\* The steps batch_predict and its workers take by themselves: everything but
\* the user's start, stop and Ctrl-C and the death of a worker process.
ProgramStep ==
    \/ SeqLlamaLoads \/ SeqLlamaFails
    \/ SeqLoop \/ SeqPredict \/ SeqWrite \/ SeqTime \/ SeqAdd \/ SeqCount
    \/ PoolTasks
    \/ \E i \in Indices : WorkerStart(i) \/ WorkerFinish(i)
    \/ \E i \in Indices : PoolCollect(i) \/ PoolCollectRaises(i)
    \/ PoolLoopEnd
    \/ PoolWrite \/ PoolTime \/ PoolAdd \/ PoolCount
    \/ PoolExitInterrupt \/ PoolExitException
    \/ FinalSave \/ Clear

\* ------------------------------------- the worker processes of the pool
\* The instance _worker_predict passes to predict_single: the module global
\* _worker_llm of the process that runs it.
WorkerLlm_First(w) == worker[1].llm
WorkerLlm(w) == worker[w].llm

\* The rest of the run is left alone by a step of a worker process.
WorkerFrame ==
    UNCHANGED <<call, disk, config, checkpoint, runs, max_workers, pc, memory,
                locals, is_running, retval, output, loaded, signal, atSignal,
                lastSave, ioFailed, clears, resumed, outOfOrder>>

\* batch_predict called with PROCESS_POOL_MAX_WORKERS = PoolSize.
StartPooled == StartRun /\ max_workers' = PoolSize

\* The executor starts process w while work is queued, and the process runs
\* its initializer: _worker_init sets _worker_llm = Llama(...).
WorkerInit(w) ==
    /\ pc \in PoolAlive
    /\ pending # {}
    /\ worker[w].state = "unborn"
    /\ worker' = [worker EXCEPT ![w] =
                     [state |-> "idle", llm |-> <<w, worker[w].inits + 1>>,
                      inits |-> worker[w].inits + 1, task |-> None]]
    /\ UNCHANGED <<handled, pool, calls, lateStarts, broken>>
    /\ WorkerFrame

\* Llama(...) raises inside _worker_init: the process exits, the executor
\* marks the pool broken, terminates its processes and fails every
\* unfinished future with BrokenProcessPool.
WorkerInitRaises(w) ==
    /\ pc \in PoolAlive
    /\ pending # {}
    /\ worker[w].state = "unborn"
    /\ worker' = [v \in Workers |->
                     IF v = w
                     THEN [state |-> "exited", llm |-> NoLlm,
                           inits |-> worker[w].inits + 1, task |-> None]
                     ELSE IF worker[v].state = "unborn" THEN worker[v]
                     ELSE [worker[v] EXCEPT !.state = "exited",
                                            !.task = None]]
    /\ failed' = failed \cup pending \cup running
    /\ pending' = {}
    /\ running' = {}
    /\ broken' = TRUE
    /\ UNCHANGED <<handled, done, calls, lateStarts>>
    /\ WorkerFrame

\* Process w takes task (i, text, template) from the call queue and enters
\* _worker_predict: predict_single(_worker_llm, input_text, prompt_template).
WorkerPredict(w, i) ==
    /\ pc \in PoolAlive
    /\ worker[w].state = "idle"
    /\ i \in pending
    /\ pending' = pending \ {i}
    /\ running' = running \cup {i}
    /\ calls' = [calls EXCEPT ![i] = @ + 1]
    /\ lateStarts' = IF signal # "none" THEN lateStarts \cup {i} ELSE lateStarts
    /\ worker' = [worker EXCEPT ![w].state = "busy", ![w].task = i]
    /\ handled' = [handled EXCEPT ![i] = [worker |-> w, llm |-> WorkerLlm(w)]]
    /\ UNCHANGED <<done, failed, broken>>
    /\ WorkerFrame

\* _worker_predict returns (idx, pred_value, infer_time) through the result
\* queue, or raises and the future holds the exception.
WorkerReturns(w) ==
    /\ pc \in PoolAlive
    /\ worker[w].state = "busy"
    /\ LET i == worker[w].task IN
       /\ running' = running \ {i}
       /\ IF predict_single(dataset[i], templateOk).exc
          THEN failed' = failed \cup {i} /\ done' = done
          ELSE done' = done \cup {i} /\ failed' = failed
    /\ worker' = [worker EXCEPT ![w].state = "idle", ![w].task = None]
    /\ UNCHANGED <<handled, pending, calls, lateStarts, broken>>
    /\ WorkerFrame

NextWorkers ==
    \/ StartPooled
    \/ PoolTasks
    \/ \E w \in Workers : WorkerInit(w) \/ WorkerInitRaises(w)
    \/ \E w \in Workers : \E i \in Indices : WorkerPredict(w, i)
    \/ \E w \in Workers : WorkerReturns(w)
    \/ \E i \in Indices : PoolCollect(i) \/ PoolCollectRaises(i)
    \/ PoolWrite \/ PoolTime \/ PoolAdd \/ PoolCount
    \/ PoolLoopEnd
    \/ PoolExitException
    \/ FinalSave \/ Clear

SpecWorkers == Init /\ [][NextWorkers]_vars

\* ------------------------------------------- the checkpoint directory
job == <<procs, config, checkpoint, runs, max_workers, pc, memory, locals, pool,
         is_running, retval, output, hist>>

\* Arguments of the save calls of the model: the state of a run after its
\* first k rows, with or without one more unit of time, and the state after
\* only the last row.
SaveArgs ==
    { <<[i \in Indices |-> IF i < k THEN 10 * (i + 1) ELSE None],
        0 .. (k - 1), k + d>> : k \in 0 .. NumRows, d \in {0, 1} }
    \cup { <<[i \in Indices |-> IF i = NumRows - 1 THEN 10 * NumRows ELSE None],
             {NumRows - 1}, 1>> }

\* manager.save_checkpoint(model_name, predictions, processed_indices,
\* total_time)
StoreSave(n, a) ==
    /\ \E f \in SaveOutcomes(diskFaulty, store[get_checkpoint_path(n)],
                             a[1], a[2], a[3]) :
          store' = [store EXCEPT ![get_checkpoint_path(n)] = f]
    /\ stored' = [stored EXCEPT ![n] = save_checkpoint(a[1], a[2], a[3])]
    /\ UNCHANGED <<got, batch, owner, job, call>>

\* manager.clear_checkpoint(model_name)
StoreClear(n) ==
    /\ \E f \in ClearOutcomes(diskFaulty, store[get_checkpoint_path(n)]) :
          store' = [store EXCEPT ![get_checkpoint_path(n)] = f]
    /\ stored' = [stored EXCEPT ![n] = Absent]
    /\ UNCHANGED <<got, batch, owner, job, call>>

\* manager.load_checkpoint(model_name)
StoreLoad(n) ==
    /\ got' = [name |-> n,
               record |-> load_checkpoint(store[get_checkpoint_path(n)]),
               expected |-> stored[n]]
    /\ UNCHANGED <<store, stored, batch, owner, job, call>>

NextStore ==
    \/ \E n \in ModelNames, a \in SaveArgs : StoreSave(n, a)
    \/ \E n \in ModelNames : StoreClear(n)
    \/ \E n \in ModelNames : StoreLoad(n)

InitStore ==
    /\ InitJob(FALSE, Absent)
    /\ templateOk
    /\ dataset = [i \in Indices |-> i + 1]

SpecStore == InitStore /\ [][NextStore]_vars

\* ------------------------------------------- jobs sharing the directory
\* A job is a model path and a dataset (the Excel file chosen in the GUI).
\* Two model paths may have the same stem; the datasets differ in length and
\* in content.
ModelPaths == {<<"dirA", "m1">>, <<"dirB", "m1">>, <<"dirA", "m2">>}
Stem(model_path) == model_path[2]
Frames == {[id |-> "A", len |-> NumRows], [id |-> "B", len |-> NumRows - 1]}

\* predict_single on row i of a dataset: the results of the two datasets
\* differ.
RowResult(df, i) == IF df.id = "A" THEN 10 * (i + 1) ELSE 10 * (i + 1) + 1

\* The file of the current job's model name.
BatchPath == get_checkpoint_path(Stem(batch.model_path))
BatchJob == <<batch.model_path, batch.df.id>>

\* checkpoint_manager.save_checkpoint(model_name, predictions,
\* processed_indices, total_time) of the current job.
BatchSave(b) ==
    /\ store' = [store EXCEPT ![BatchPath] =
                    save_checkpoint(b.predictions, b.processed_indices, 0)]
    /\ stored' = [stored EXCEPT ![Stem(batch.model_path)] =
                    save_checkpoint(b.predictions, b.processed_indices, 0)]
    /\ owner' = [owner EXCEPT ![BatchPath] = BatchJob]

Clobbers == owner[BatchPath] \notin {NoJob, BatchJob}

\* batch_predict lines 264-286: the name is the stem of the model path; load
\* its checkpoint and take predictions and processed_indices from it, or
\* allocate [None] * len(df) and set().
JobKey(model_path, df) == get_checkpoint_path(Stem(model_path))

JobStart(model_path, df) ==
    /\ batch.phase = "idle"
    /\ LET ck == load_checkpoint(store[JobKey(model_path, df)])
       IN  batch' = [phase |-> "running", model_path |-> model_path, df |-> df,
                     predictions |-> IF ck.exists THEN ck.predictions
                                     ELSE [i \in 0 .. (df.len - 1) |-> None],
                     processed_indices |-> IF ck.exists THEN ck.processed_indices
                                           ELSE {},
                     from |-> IF ck.exists THEN owner[JobKey(model_path, df)]
                              ELSE NoJob,
                     clobbered |-> FALSE, retval |-> "none"]
    /\ UNCHANGED <<store, stored, got, owner, job, call>>

\* Lines 311-321, one item: the next row of df that is not in
\* processed_indices; predictions[idx] = pred_value raises IndexError when the
\* list is shorter than the row's index, which "except Exception" answers with
\* a save and a re-raise.
Todo == (0 .. (batch.df.len - 1)) \ batch.processed_indices

JobStep ==
    /\ batch.phase = "running"
    /\ Todo # {}
    /\ LET next_idx == CHOOSE i \in Todo : \A j \in Todo : i <= j IN
       IF next_idx \in DOMAIN batch.predictions
       THEN /\ batch' = [batch EXCEPT
                           !.predictions = [@ EXCEPT ![next_idx] = RowResult(batch.df, next_idx)],
                           !.processed_indices = @ \cup {next_idx}]
            /\ UNCHANGED <<store, stored, owner>>
       ELSE /\ BatchSave(batch)
            /\ batch' = [batch EXCEPT !.phase = "idle", !.retval = "Exception",
                                      !.clobbered = Clobbers]
    /\ UNCHANGED <<got, job, call>>

\* Lines 328-334: KeyboardInterrupt between two items: save and re-raise.
JobInterrupt ==
    /\ batch.phase = "running"
    /\ BatchSave(batch)
    /\ batch' = [batch EXCEPT !.phase = "idle", !.retval = "KeyboardInterrupt",
                              !.clobbered = Clobbers]
    /\ UNCHANGED <<got, job, call>>

\* Lines 392-404: every row of df is in processed_indices: final save, clear,
\* return predictions.
JobFinish ==
    /\ batch.phase = "running"
    /\ Todo = {}
    /\ store' = [store EXCEPT ![BatchPath] = clear_checkpoint(@)]
    /\ stored' = [stored EXCEPT ![Stem(batch.model_path)] = Absent]
    /\ owner' = [owner EXCEPT ![BatchPath] = NoJob]
    /\ batch' = [batch EXCEPT !.phase = "idle", !.retval = "predictions",
                              !.clobbered = Clobbers]
    /\ UNCHANGED <<got, job, call>>

NextJobs ==
    \/ \E model_path \in ModelPaths, df \in Frames : JobStart(model_path, df)
    \/ JobStep
    \/ JobInterrupt
    \/ JobFinish

InitJobs == InitStore

SpecJobs == InitJobs /\ [][NextJobs]_vars

\* ------------------------------------------------- extract_max_value
\* A text is a sequence of tokens: a number (held exactly, in units of
\* 1/Scale) or a string. "*" stands for the multiplication sign U+00D7,
\* "limi" for the two characters of "centimetre" in Chinese (U+5398 U+7C73),
\* "haomi" for those of "millimetre" (U+6BEB U+7C73), "jiejie" for any other
\* Chinese words.
Scale == 10
Num(n) == [num |-> n, str |-> ""]
Str(s) == [num |-> None, str |-> s]
IsNum(t) == t.num # None

\* re.I and unit.lower()
Lower(s) ==
    CASE s = "CM" -> "cm"
      [] s = "MM" -> "mm"
      [] OTHER -> s

\* _normalize: full-width brackets, multiplication signs, ~ and * replaced.
NormalizeStr(s) ==
    CASE s = "*" -> "x"
      [] s = "X" -> "x"
      [] s = "~" -> "-"
      [] OTHER -> s

normalize(t) ==
    [i \in DOMAIN t |-> IF IsNum(t[i]) THEN t[i] ELSE Str(NormalizeStr(t[i].str))]

\* _NUM_UNIT_RE = (\d+\.?\d*)\s*(cm|mm|um|μm|m)? with re.I: the unit group of
\* the match that starts at a number, looked for from position j on.
UnitNames == {"cm", "mm", "um", "m"}

RECURSIVE UnitFrom(_, _)
UnitFrom(t, j) ==
    IF j > Len(t) THEN ""
    ELSE IF ~IsNum(t[j]) /\ t[j].str = " " THEN UnitFrom(t, j + 1)
    ELSE IF ~IsNum(t[j]) /\ Lower(t[j].str) \in UnitNames THEN t[j].str
    ELSE ""

\* _NUM_UNIT_RE.findall(text): (val_str, unit) of every match, left to right.
FindAll(t) ==
    LET at == SelectSeq([i \in 1 .. Len(t) |-> i], LAMBDA i : IsNum(t[i]))
    IN  [k \in 1 .. Len(at) |-> <<t[at[k]].num, UnitFrom(t, at[k] + 1)>>]

\* Lines 94-95 and 111, 113: val *= 10, max_val *= 10.
CmToMm == 10

\* Lines 110 and 112: max_val < 3, 3 <= max_val < 7; main.py line 93 has 5.
SmallBelow == 3
AmbiguousUpper_Main == 5
AmbiguousUpper == 7

RECURSIVE SeqMax(_)
SeqMax(q) ==
    IF Len(q) = 1 THEN q[1]
    ELSE LET m == SeqMax(Tail(q)) IN IF q[1] > m THEN q[1] ELSE m

\* Lines 106-107: re.search(r'cm', raw_text, re.I) or the Chinese word.
has_cm(raw) ==
    \E i \in DOMAIN raw : ~IsNum(raw[i]) /\ (Lower(raw[i].str) = "cm" \/ raw[i].str = "limi")
has_mm_Never(raw) == FALSE
has_mm(raw) ==
    \E i \in DOMAIN raw : ~IsNum(raw[i]) /\ (Lower(raw[i].str) = "mm" \/ raw[i].str = "haomi")

\* Lines 110-113: if ... elif ..., so at most one of the two applies.
Corrected_Twice(max_val, raw) ==
    LET once == IF max_val < SmallBelow * Scale /\ has_cm(raw)
                THEN max_val * CmToMm ELSE max_val
    IN  IF SmallBelow * Scale <= once /\ once < AmbiguousUpper * Scale
           /\ has_cm(raw) /\ ~has_mm(raw)
        THEN once * CmToMm ELSE once
Corrected(max_val, raw) ==
    IF max_val < SmallBelow * Scale /\ has_cm(raw)
    THEN max_val * CmToMm
    ELSE IF SmallBelow * Scale <= max_val /\ max_val < AmbiguousUpper * Scale
            /\ has_cm(raw) /\ ~has_mm(raw)
    THEN max_val * CmToMm
    ELSE max_val

\* extract_max_value(text, raw_text). The value is returned as an int when it
\* is whole and as a float otherwise; both are the same number, held here in
\* units of 1/Scale. None when the text has no number.
Candidates(t) ==
    LET clean   == SelectSeq(normalize(t), LAMBDA tok : IsNum(tok) \/ tok.str # "(brn)")
        found   == FindAll(clean)
        tagged  == [k \in DOMAIN found |->
                      IF Lower(found[k][2]) = "cm"
                      THEN found[k][1] * CmToMm ELSE found[k][1]]
        bare    == SelectSeq(clean, IsNum)
    IN  IF tagged # <<>> THEN tagged
        ELSE [k \in DOMAIN bare |-> bare[k].num]

extract_max_value_ZeroIsNone(t, raw) ==
    LET numbers == Candidates(t) IN
    IF numbers = <<>> \/ SeqMax(numbers) = 0 THEN None
    ELSE Corrected(SeqMax(numbers), raw)

extract_max_value(t, raw) ==
    LET numbers == Candidates(t) IN
    IF numbers = <<>> THEN None
    ELSE Corrected(SeqMax(numbers), raw)

\* main.py lines 63-97: the same function but for the upper end of the
\* ambiguous band at line 93.
Corrected_Main(max_val, raw) ==
    IF max_val < SmallBelow * Scale /\ has_cm(raw)
    THEN max_val * CmToMm
    ELSE IF SmallBelow * Scale <= max_val /\ max_val < AmbiguousUpper_Main * Scale
            /\ has_cm(raw) /\ ~has_mm(raw)
    THEN max_val * CmToMm
    ELSE max_val

main_extract_max_value(t, raw) ==
    LET numbers == Candidates(t) IN
    IF numbers = <<>> THEN None
    ELSE Corrected_Main(SeqMax(numbers), raw)

\* Texts of the model: up to MaxSegments measurements joined by the
\* multiplication sign, each a number followed by nothing, a unit, or a space
\* and a unit; and texts without a number.
MaxSegments == 2
NumValues == {0, 2, 5, 20, 30, 50, 70, 80}
UnitTails ==
    { <<>>, <<Str("mm")>>, <<Str(" "), Str("mm")>>, <<Str("cm")>>, <<Str("CM")>> }
Segments == { <<Num(n)>> \o u : n \in NumValues, u \in UnitTails }

RECURSIVE Join(_)
Join(segs) ==
    IF segs = <<>> THEN <<>>
    ELSE IF Len(segs) = 1 THEN segs[1]
    ELSE segs[1] \o <<Str("*")>> \o Join(Tail(segs))

NoNumberTexts ==
    { <<Str("jiejie")>>, <<Str("mm")>>, <<Str("jiejie"), Str(" "), Str("cm")>> }

Texts ==
    { Join(segs) : segs \in UNION { [1 .. n -> Segments] : n \in 0 .. MaxSegments } }
    \cup NoNumberTexts

\* Raw texts other than the generated text itself.
RawTexts ==
    { <<Str("jiejie"), Str("cm")>>,
      <<Str("CM")>>,
      <<Str("limi")>>,
      <<Str("jiejie"), Str("mm")>>,
      <<Str("cm"), Str("jiejie"), Str("mm")>>,
      <<Str("limi"), Str("haomi")>> }

\* predict_single line 155: final_result = extract_max_value(raw_result,
\* input_text)
Extract ==
    /\ ~extracted.returned
    /\ extracted' = [extracted EXCEPT !.returned = TRUE,
                                      !.value = extract_max_value(text, raw_text)]
    /\ UNCHANGED <<text, raw_text, processed_input, disk, job>>

\* main.py line 137: the same call in the command-line program.
ExtractMain ==
    /\ ~extracted.mainReturned
    /\ extracted' = [extracted EXCEPT !.mainReturned = TRUE,
                                      !.main = main_extract_max_value(text, raw_text)]
    /\ UNCHANGED <<text, raw_text, processed_input, disk, job>>

InitExtract ==
    /\ InitRun({[i \in Indices |-> i + 1]}, FALSE, Absent)
    /\ templateOk
    /\ text \in Texts
    /\ raw_text \in RawTexts \cup {text}
    /\ extracted = [returned |-> FALSE, value |-> None,
                    mainReturned |-> FALSE, main |-> None]
    /\ processed_input = <<>>

NextExtract == Extract \/ ExtractMain

SpecExtract == InitExtract /\ [][NextExtract]_vars

\* ------------------------------------------------- text preprocessing
\* Texts are token sequences as above. Further stand-ins: "star" for the ASCII
\* asterisk, "[" and "]" for the full-width brackets U+FF08 and U+FF09,
\* "fei", "ge", "lei", "qi" for the four anatomical keyword characters
\* (U+80BA, U+8188, U+808B, U+6C14), "xin" for any other Chinese character,
\* "." for the full stop U+3002.

\* preprocessing, lines 57-58: spaces, newlines and (brn) marks are deleted,
\* then each of x X * - ~ becomes the multiplication sign.
Deleted == {" ", "\n", "(brn)", "[brn]"}
ToTimes == {"x", "X", "star", "-", "~"}

Collapse(t) ==
    LET kept == SelectSeq(t, LAMBDA tok : IsNum(tok) \/ tok.str \notin Deleted)
    IN  [i \in DOMAIN kept |->
           IF ~IsNum(kept[i]) /\ kept[i].str \in ToTimes THEN Str("*") ELSE kept[i]]

\* The pattern of line 56, (\d+(?:\.\d+)?)x(\d+(?:\.\d+)?)(mm|cm) with the
\* multiplication sign for x, matches at position i.
DimUnits == {"mm", "cm"}
DimAt(t, i) ==
    /\ i + 3 <= Len(t)
    /\ IsNum(t[i])
    /\ ~IsNum(t[i + 1]) /\ t[i + 1].str = "*"
    /\ IsNum(t[i + 2])
    /\ ~IsNum(t[i + 3]) /\ t[i + 3].str \in DimUnits

\* pattern.sub(_repl, input): matches are taken left to right without
\* overlap, each replaced by n1 unit x n2 unit.
RECURSIVE Expand(_, _)
Expand(t, i) ==
    IF i > Len(t) THEN <<>>
    ELSE IF DimAt(t, i)
    THEN <<t[i], t[i + 3], t[i + 1], t[i + 2], t[i + 3]>> \o Expand(t, i + 4)
    ELSE <<t[i]>> \o Expand(t, i + 1)

preprocessing(t) == Expand(Collapse(t), 1)

\* remove_img_tags, lines 38-52.
Openers == {"(", "["}
Closers == {")", "]"}
Markers == {"lm", "im", "img", "LM", "IM", "IMG", "Img"}
TagMaxLen == 20

IsStr(tok, set) == ~IsNum(tok) /\ tok.str \in set

\* Number of characters of a token.
CharLen(tok) ==
    IF IsNum(tok)
    THEN (IF tok.num < 10 * Scale THEN 1 ELSE 2) + (IF tok.num % Scale = 0 THEN 0 ELSE 2)
    ELSE IF tok.str \in {"img", "IMG", "Img"} THEN 3
    ELSE IF tok.str \in {"(brn)", "[brn]"} THEN 5
    ELSE IF tok.str \in {"lm", "im", "LM", "IM", "mm", "cm", "MM", "CM", "limi", "haomi"} THEN 2
    ELSE 1

RECURSIVE TextLen(_)
TextLen(t) == IF t = <<>> THEN 0 ELSE CharLen(Head(t)) + TextLen(Tail(t))

\* The first closing bracket after position i, or 0.
RECURSIVE FirstCloser(_, _)
FirstCloser(t, j) ==
    IF j > Len(t) THEN 0
    ELSE IF IsStr(t[j], Closers) THEN j
    ELSE FirstCloser(t, j + 1)

\* The end of the match of the pattern of line 51 that starts at position i,
\* or 0: an opening bracket, then up to the first closing bracket, with a
\* marker in between.
TagEnd(t, i) ==
    LET e == FirstCloser(t, i + 1) IN
    IF IsStr(t[i], Openers) /\ e > 0
       /\ \E j \in (i + 1) .. (e - 1) : IsStr(t[j], Markers)
    THEN e ELSE 0

\* re.sub(pattern, replacer, text): a match of at most TagMaxLen characters
\* is dropped, a longer one is kept, and the scan goes on after the match.
RECURSIVE StripTags(_, _)
StripTags(t, i) ==
    IF i > Len(t) THEN <<>>
    ELSE LET e == TagEnd(t, i) IN
         IF e = 0 THEN <<t[i]>> \o StripTags(t, i + 1)
         ELSE IF TextLen(SubSeq(t, i, e)) <= TagMaxLen THEN StripTags(t, e + 1)
         ELSE SubSeq(t, i, e) \o StripTags(t, e + 1)

remove_img_tags(t) == StripTags(t, 1)

\* filter_segments, lines 21-35: split after each of the separators, keep the
\* segments that hold a keyword character and a digit, join them.
Separators == {".", ";", "fullsemi"}
Keywords == {"fei", "ge", "lei", "qi"}

\* The segment that starts at position i ends at the first separator from i
\* on, or at the end of the text.
RECURSIVE SegmentEnd(_, _)
SegmentEnd(t, j) ==
    IF j >= Len(t) THEN Len(t)
    ELSE IF IsStr(t[j], Separators) THEN j
    ELSE SegmentEnd(t, j + 1)

KeepSegment_DigitOnly(seg) ==
    \E j \in DOMAIN seg : IsNum(seg[j])
KeepSegment(seg) ==
    /\ \E j \in DOMAIN seg : IsStr(seg[j], Keywords)
    /\ \E j \in DOMAIN seg : IsNum(seg[j])

RECURSIVE FilterFrom(_, _)
FilterFrom(t, i) ==
    IF i > Len(t) THEN <<>>
    ELSE LET e == SegmentEnd(t, i)
             seg == SubSeq(t, i, e)
         IN  (IF KeepSegment(seg) THEN seg ELSE <<>>) \o FilterFrom(t, e + 1)

filter_segments(t) == FilterFrom(t, 1)

\* Input texts of the model.
\* Dimensions: up to MaxOperands numbers, each with or without a unit, joined
\* by a multiplication sign or a letter x.
MaxOperands == 3
DimOperands ==
    { <<Num(n)>> \o u : n \in {80, 120},
                        u \in {<<>>, <<Str("mm")>>, <<Str("cm")>>} }
DimSeps == {"*", "x"}

RECURSIVE JoinWith(_, _)
JoinWith(ops, seps) ==
    IF Len(ops) = 1 THEN ops[1]
    ELSE ops[1] \o <<Str(seps[1])>> \o JoinWith(Tail(ops), Tail(seps))

DimTexts ==
    UNION { { JoinWith(ops, seps) : ops \in [1 .. k -> DimOperands],
                                    seps \in [1 .. (k - 1) -> DimSeps] }
            : k \in 1 .. MaxOperands }

\* Brackets: an optional earlier opening bracket and filler, then a bracketed
\* fragment of filler with or without a marker, then nothing or "8mm". The
\* filler lengths put the fragment, and the stretch from the earlier bracket
\* to the fragment's end, on both sides of TagMaxLen.
Pad(k) == [i \in 1 .. k |-> Str("a")]
PadSizes == {0, 1} \cup {TagMaxLen - k : k \in 3 .. 7}
BracketTexts ==
    { pre \o Pad(g) \o <<Str(o)>> \o Pad(a) \o <<Str(m)>> \o Pad(b) \o <<Str(c)>> \o suf :
        pre \in {<<>>, <<Str("(")>>, <<Str("[")>>},
        g \in PadSizes, o \in Openers, a \in PadSizes,
        m \in {"img", "IM", "lm", "a"}, b \in {0, 1}, c \in Closers,
        suf \in {<<>>, <<Num(80), Str("mm")>>} }

\* Sentences: up to MaxTokens tokens out of keyword characters, another
\* character, a number and separators.
MaxTokens == 3
SentenceTokens ==
    {Str("fei"), Str("qi"), Str("xin"), Num(80), Str("."), Str(";")}
SentenceTexts ==
    UNION { [1 .. n -> SentenceTokens] : n \in 0 .. MaxTokens }

PrepTexts == DimTexts \cup BracketTexts \cup SentenceTexts

\* predict_single lines 132-136: the three steps in their order;
\* processed_input holds the successive values of the variable of that name,
\* the input text first.
Preprocessing ==
    /\ Len(processed_input) = 1
    /\ processed_input' = Append(processed_input, preprocessing(processed_input[1]))
    /\ UNCHANGED <<text, raw_text, extracted, disk, job>>

RemoveImgTags ==
    /\ Len(processed_input) = 2
    /\ processed_input' = Append(processed_input, remove_img_tags(processed_input[2]))
    /\ UNCHANGED <<text, raw_text, extracted, disk, job>>

FilterSegments ==
    /\ Len(processed_input) = 3
    /\ processed_input' = Append(processed_input, filter_segments(processed_input[3]))
    /\ UNCHANGED <<text, raw_text, extracted, disk, job>>

NextPrep == Preprocessing \/ RemoveImgTags \/ FilterSegments

InitPrep ==
    /\ InitRun({[i \in Indices |-> i + 1]}, FALSE, Absent)
    /\ templateOk
    /\ text = <<>> /\ raw_text = <<>>
    /\ extracted = [returned |-> FALSE, value |-> None,
                    mainReturned |-> FALSE, main |-> None]
    /\ \E t \in PrepTexts : processed_input = <<t>>

SpecPrep == InitPrep /\ [][NextPrep]_vars

\* ===================================================================
\* Properties
\* ===================================================================

\* batch_predict returned its prediction list (line 404).
Returned == pc = "done" /\ retval = "predictions"

\* The result predict_single computes for dataset row i.
ResultOfRow(i) == predict_single(dataset[i], templateOk).pred

\* C1: when batch_predict returns its prediction list, in sequential or pooled
\* mode, fresh or resumed, slot i holds the result computed for dataset row i,
\* whatever the order in which the items were collected.
C1_SlotHoldsRowResult ==
    Returned => \A i \in Indices : predictions[i] = ResultOfRow(i)

\* A resumed pooled run returned after collecting items out of dataset order.
C1_Witness ==
    /\ Returned
    /\ max_workers = PoolSize
    /\ resumed
    /\ outOfOrder
    /\ \E i, j \in Indices : i # j /\ predictions[i] # predictions[j]

\* C2: in a run that started from processed set `loaded`, inference is never
\* invoked for an index of `loaded`, is invoked at most once for any index and
\* exactly once for every index processed in this run; at normal return every
\* index outside `loaded` has been invoked exactly once.
C2_DispatchedExactlyOnce ==
    /\ \A i \in Indices :
          /\ calls[i] <= 1
          /\ i \in loaded => calls[i] = 0
          /\ i \in processed_indices \ loaded => calls[i] = 1
    /\ Returned => \A i \in Indices \ loaded : calls[i] = 1

\* A run resumed from a non-prefix processed set that holds a null slot
\* returned after dispatching only the remaining index.
C2_Witness ==
    /\ Returned
    /\ resumed
    /\ Cardinality(loaded) = NumRows - 1
    /\ (NumRows - 1) \in loaded
    /\ \E i \in loaded : predictions[i] = None
    /\ \E i \in Indices \ loaded : calls[i] = 1

\* The vector an uninterrupted run over the dataset returns: rows handled in
\* ascending order from an all-None vector.
RECURSIVE UninterruptedFrom(_, _)
UninterruptedFrom(i, vec) ==
    IF i = NumRows THEN vec
    ELSE UninterruptedFrom(
            i + 1, [vec EXCEPT ![i] = predict_single(dataset[i], templateOk).pred])

UninterruptedRun == UninterruptedFrom(0, EmptyVector)

\* C3: a run resumed from the snapshot of an interrupted or failed run returns
\* the same vector as an uninterrupted run over the same dataset.
C3_ResumeIdempotent ==
    (Returned /\ resumed) => predictions = UninterruptedRun

\* A resumed run returned a vector with values, part of it loaded from the
\* snapshot and part computed in this run.
C3_Witness ==
    /\ Returned
    /\ resumed
    /\ \E i \in loaded : predictions[i] # None
    /\ \E i \in Indices \ loaded : predictions[i] # None

\* C4: every snapshot written by a run is self-consistent: an index of its
\* processed set has its slot written, and no index outside its processed set
\* has a written slot.
C4_SnapshotSelfConsistent ==
    checkpoint.exists =>
        \A i \in Indices :
            /\ i \in checkpoint.processed_indices
                  => checkpoint.predictions[i] = ResultOfRow(i)
            /\ i \notin checkpoint.processed_indices
                  => checkpoint.predictions[i] = None

\* C5: clear_checkpoint is called only with every dataset index processed and
\* right after the final save of that very state; a run that ended by a
\* KeyboardInterrupt, an exception or the model-load return has not cleared.
C5_ClearOnlyWhenComplete ==
    /\ pc = "clear" =>
          /\ Indices \subseteq processed_indices
          /\ lastSave = "final"
          /\ checkpoint =
                save_checkpoint(predictions, processed_indices, total_time)
    /\ clears > 0 =>
          /\ retval = "predictions"
          /\ Indices \subseteq processed_indices
    /\ retval \in {"KeyboardInterrupt", "Exception", "None"} => clears = 0

\* A resumed run completed and removed the snapshot it had started from.
C5_Witness ==
    /\ Returned
    /\ resumed
    /\ clears = 1
    /\ ~checkpoint.exists

\* C6: the snapshot is cleared only after the output table with the job's
\* prediction column has been written.
C6_ClearAfterOutput ==
    clears > 0 => output = "predictions"

\* C7: a KeyboardInterrupt inside the running loop ends the run with a save
\* whose processed set and vector hold exactly the items completed up to the
\* signal, and with the snapshot retained.
C7_InterruptSavesExactly ==
    (retval = "KeyboardInterrupt" /\ signal \in SeqTry \cup PoolTry) =>
        /\ lastSave = "interrupt"
        /\ clears = 0
        /\ load_checkpoint(checkpoint).exists
        /\ load_checkpoint(checkpoint).processed_indices = atSignal
        /\ \A i \in Indices :
              load_checkpoint(checkpoint).predictions[i] =
                 IF i \in atSignal THEN ResultOfRow(i) ELSE None

\* C8: once the stop signal has been observed, no work item starts executing.
C8_NoStartAfterSignal ==
    lateStarts = {}

\* C9 (as amended): a fault of the inference call is recorded as a null slot
\* at a processed index and never ends the run by an exception; a fault of
\* prompt construction is not isolated: the run that meets it ends by the
\* exception, after the save of "except Exception".
C9_InferenceFaultIsolated ==
    /\ \A i \in Indices :
          (templateOk /\ LlmRaises(dataset[i]) /\ i \in processed_indices)
             => predictions[i] = None
    /\ Returned => \A i \in Indices : i \in processed_indices
    /\ retval = "Exception" => (~templateOk \/ broken)
    /\ (~templateOk /\ pc = "done" /\ signal = "none" /\ retval # "None")
          => (retval = "Exception" /\ lastSave = "error")

\* A run handled the row whose inference call raises, recorded None for it and
\* went on to return the values of the other rows.
C9_Witness ==
    /\ Returned
    /\ \E i \in Indices \ loaded :
          LlmRaises(dataset[i]) /\ calls[i] = 1 /\ predictions[i] = None
    /\ \E i \in Indices \ loaded : predictions[i] # None

\* C9 (as claimed): no fault raised while handling an item, prompt
\* construction included, ends the run; only a broken pool does.
C9_AnyItemFaultIsolated ==
    retval = "Exception" => broken

\* C10: an orchestration-level fault (model construction in sequential mode,
\* a broken worker pool in pooled mode) ends the run by an exception after a
\* save; the run never returns normally from it.
C10_OrchestrationFaultSurfaces ==
    /\ retval # "None"
    /\ (broken /\ pc = "done" /\ signal = "none")
          => (retval = "Exception" /\ lastSave = "error")

\* batch_predict ended without completing: by a KeyboardInterrupt, by an
\* exception, or by the return of the model-load failure path.
EndedNotCompleted ==
    pc \in {"done", "idle"} /\ retval \in {"KeyboardInterrupt", "Exception", "None"}

\* C11: every termination of a run other than Completed leaves a snapshot on
\* disk for the job (from which the next run starts).
C11_NonCompletedLeavesSnapshot ==
    EndedNotCompleted => load_checkpoint(checkpoint).exists

\* C12: a save or a delete that fails does not abort the run: a run in which
\* one failed, and which met no signal, no broken pool and no prompt fault,
\* returns its prediction list with every row processed, and the in-memory
\* vector keeps the result of every processed row.
C12_StoreFaultNotFatal ==
    ioFailed =>
        /\ \A i \in processed_indices \cap Indices :
              predictions[i] = ResultOfRow(i)
        /\ (pc = "done" /\ templateOk /\ ~broken /\ signal = "none"
               /\ retval # "None")
              => /\ retval = "predictions"
                 /\ Indices \subseteq processed_indices

\* A run returned its predictions although its final save failed in the
\* middle of the write and the delete of that file failed too.
C12_Witness ==
    /\ Returned
    /\ ioFailed
    /\ checkpoint = Truncated
    /\ \E i \in Indices : predictions[i] # None

\* batch_predict raised while rehydrating from the loaded record, before any
\* handler was in place.
RehydrateFailed ==
    pc \in {"done", "idle"} /\ retval = "Exception" /\ lastSave = "none"

\* C13: a stored file that is truncated, or that holds a record lacking a
\* checkpoint field, is treated as absent: load returns no record and the run
\* starts fresh without failing.
C13_CorruptTreatedAsAbsent ==
    /\ runs > 0 /\ checkpoint.content \in {"truncated", "partial"}
          => ~load_checkpoint(checkpoint).exists
    /\ ~RehydrateFailed

\* C14: the checkpoint directory is a map from model name to an optional
\* snapshot: a load returns the predictions, processed set and time of the last
\* save for that name made after its last clear, and no record when there is
\* none (a clear of a name without a file included).
C14_StoreIsMap ==
    /\ \A n \in ModelNames :
          load_checkpoint(store[get_checkpoint_path(n)]) = stored[n]
    /\ got.record = got.expected

\* A load returned the second save for a name that had been saved, cleared
\* and saved again, while the other name has no snapshot after a clear.
C14_Witness ==
    /\ got.name = "m1"
    /\ got.record.exists
    /\ got.record = stored["m1"]
    /\ got.record.processed_indices = {NumRows - 1}
    /\ stored["m2"] = Absent
    /\ ~load_checkpoint(store[get_checkpoint_path("m2")]).exists

\* C15: every run reaches Completed, Cancelled or Failed even when an
\* inference call never returns. Finite form: a run that has started and not
\* yet returned can always take a step of its own, so it never waits on
\* something that will not happen.
C15_RunNeverStuck ==
    pc \in {"idle", "done"} \/ ENABLED ProgramStep

\* Shapes of texts the claims on extract_max_value speak of.
MmUnits == {<<Str("mm")>>, <<Str(" "), Str("mm")>>}
CmUnits == {<<Str("cm")>>, <<Str("CM")>>}
CmOnlyRaws == {<<Str("jiejie"), Str("cm")>>, <<Str("CM")>>, <<Str("limi")>>}
CmAndMmRaws == {<<Str("cm"), Str("jiejie"), Str("mm")>>, <<Str("limi"), Str("haomi")>>}

\* A tagged measurement in millimetres: a centimetre value times 10.
InMm(seg) ==
    IF SubSeq(seg, 2, Len(seg)) \in CmUnits THEN 10 * seg[1].num ELSE seg[1].num

\* C16: whatever the raw text, a generated text that holds exactly one number
\* token <N>mm and no other number yields N unchanged.
C16_SingleMmUnchanged ==
    \A n \in NumValues, u \in MmUnits :
        extracted.returned /\ text = <<Num(n)>> \o u => extracted.value = n

\* C17: a generated text and raw text that both are one token <N>cm yield
\* 10 x N, for every N >= 0.
C17_SingleCmTimesTen ==
    \A n \in NumValues, u \in CmUnits :
        extracted.returned /\ text = <<Num(n)>> \o u /\ raw_text = text
            => extracted.value = 10 * n

\* C18: a generated text of several unit-tagged numbers, used also as raw
\* text, yields the maximum of the numbers after each centimetre value is
\* multiplied by 10, with no further change.
C18_MaxOfTagged ==
    \A k \in 2 .. MaxSegments :
        \A segs \in [1 .. k -> {g \in Segments : Len(g) > 1}] :
            extracted.returned /\ text = Join(segs) /\ raw_text = text
                => extracted.value = SeqMax([j \in 1 .. k |-> InMm(segs[j])])

C20_BothUnitsNoCorrection ==
    \A n \in NumValues :
        extracted.returned /\ text = <<Num(n)>> /\ raw_text \in CmAndMmRaws
            /\ 3 * Scale <= n /\ n < 7 * Scale
            => extracted.value = n

\* The bare value 5 with a raw text holding cm and mm came back as 5.
C20_Witness ==
    /\ extracted.returned
    /\ text = <<Num(50)>>
    /\ raw_text = <<Str("cm"), Str("jiejie"), Str("mm")>>
    /\ extracted.value = 50

\* C21: extract_max_value returns no measurement exactly when the generated
\* text holds no number, the empty text included.
C21_NullIffNoDigit ==
    extracted.returned =>
        (extracted.value = None <=> ~ \E i \in DOMAIN text : IsNum(text[i]))

\* A text of words and a unit but no number gave no measurement.
C21_Witness ==
    /\ extracted.returned
    /\ text = <<Str("jiejie"), Str(" "), Str("cm")>>
    /\ raw_text = text
    /\ extracted.value = None

\* The largest candidate of the generated text, centimetres converted, before
\* the context correction.
MaxCandidate == SeqMax(Candidates(text))

\* C28: core.py and main.py return the same result, except exactly when the
\* largest candidate lies in [5, 7) and the raw text has centimetre evidence
\* and no millimetre evidence, where core.py returns 10 times main.py's value.
C28_CoreMainDifference ==
    extracted.returned /\ extracted.mainReturned =>
        IF /\ Candidates(text) # <<>>
           /\ 5 * Scale <= MaxCandidate /\ MaxCandidate < 7 * Scale
           /\ \E i \in DOMAIN raw_text : raw_text[i].str \in {"cm", "CM", "limi"}
           /\ ~ \E i \in DOMAIN raw_text : raw_text[i].str \in {"mm", "MM", "haomi"}
        THEN extracted.value = 10 * extracted.main /\ extracted.value # extracted.main
        ELSE extracted.value = extracted.main

\* Both programs extracted from 0.5cm: the candidate 5 came back as 50 from
\* core.py and as 5 from main.py.
C28_Witness ==
    /\ extracted.returned /\ extracted.mainReturned
    /\ text = <<Num(5), Str("cm")>>
    /\ raw_text = text
    /\ extracted.value = 500
    /\ extracted.main = 50

\* C22: the pipeline preprocessing, remove_img_tags, filter_segments returns
\* the empty text for every input without one of the four keyword characters,
\* whatever numbers it holds, and for every input without a number.
C22_NoKeywordOrNoDigitGivesEmpty ==
    LET input == processed_input[1] IN
    Len(processed_input) = 4 =>
        /\ (~ \E i \in DOMAIN input : input[i] \in {Str("fei"), Str("ge"), Str("lei"), Str("qi")})
              => processed_input[4] = <<>>
        /\ (~ \E i \in DOMAIN input : IsNum(input[i]))
              => processed_input[4] = <<>>

\* An input with a number and no keyword character went through the three
\* steps and came out empty.
C22_Witness ==
    /\ Len(processed_input) = 4
    /\ processed_input[1] = <<Str("xin"), Num(80), Str(".")>>
    /\ processed_input[4] = <<>>

\* The last opening bracket before position j, or 0.
RECURSIVE OpenerBefore(_, _)
OpenerBefore(t, j) ==
    IF j < 1 THEN 0
    ELSE IF t[j] \in {Str("("), Str("[")} THEN j
    ELSE OpenerBefore(t, j - 1)

\* C23: remove_img_tags removes a bracket-enclosed fragment that holds a
\* marker when it is at most 20 characters long, keeps it when it is longer,
\* and leaves all text outside it unchanged, also when an unclosed opening
\* bracket stands before the fragment. Stated for texts with one closing
\* bracket, where the fragment runs from the last opening bracket before it.
C23_TagRemovedByLength ==
    LET t      == processed_input[2]
        closed == {j \in DOMAIN t : t[j] \in {Str(")"), Str("]")}}
        fc     == CHOOSE j \in closed : TRUE
        lo     == OpenerBefore(t, fc - 1)
    IN  (Len(processed_input) >= 3 /\ Cardinality(closed) = 1 /\ lo > 0
         /\ \E j \in (lo + 1) .. (fc - 1) :
               t[j] \in {Str("lm"), Str("im"), Str("img"), Str("LM"), Str("IM"), Str("IMG")})
        => processed_input[3] =
              IF TextLen(SubSeq(t, lo, fc)) <= 20
              THEN SubSeq(t, 1, lo - 1) \o SubSeq(t, fc + 1, Len(t))
              ELSE t

\* C27: after preprocessing no number is left that stands, without a unit,
\* before a multiplication sign, a number and the unit mm or cm.
C27_NoShorthandLeft ==
    LET t == processed_input[2] IN
    Len(processed_input) >= 2 =>
        ~ \E i \in 1 .. (Len(t) - 3) :
              /\ IsNum(t[i]) /\ t[i + 1] = Str("*") /\ IsNum(t[i + 2])
              /\ t[i + 3] \in {Str("mm"), Str("cm")}

\* C24: in both modes and in resumed runs a save follows the k-th item
\* collected in the current run exactly when k is a multiple of the interval:
\* between two items, the items collected and missing from the last snapshot
\* written number k modulo the interval, so at most the interval minus 1.
C24_PeriodicSave ==
    LET saved == IF checkpoint.exists THEN checkpoint.processed_indices ELSE {} IN
    pc \in {"seq_loop", "seq_predict", "pool_wait"} =>
        /\ saved \subseteq processed_indices
        /\ Cardinality(processed_indices \ saved) = processed_count % SaveInterval
        /\ Cardinality(processed_indices \ saved) <= SaveInterval - 1

\* A resumed pooled run has collected as many items as the interval and the
\* periodic save has just written them all.
C24_Witness ==
    /\ pc = "pool_wait"
    /\ resumed
    /\ processed_count = SaveInterval
    /\ lastSave = "periodic"
    /\ checkpoint.exists /\ checkpoint.processed_indices = processed_indices

\* C29: a save that fails or is cut short leaves the previous snapshot in
\* place: across every step of a run, what a load of the job's file returns
\* is what it returned before, or the snapshot of the run's state that a save
\* has just written, or nothing right after the final clear.
C29_FailedSaveKeepsPrevious ==
    [][\/ load_checkpoint(checkpoint') = load_checkpoint(checkpoint)
       \/ load_checkpoint(checkpoint') =
              save_checkpoint(predictions', processed_indices', total_time')
       \/ pc = "clear" /\ load_checkpoint(checkpoint') = Absent]_vars

\* C25: in every state of a run over a dataset of n rows, right after
\* rehydrating from a loaded snapshot included, the prediction vector has
\* exactly n slots and the processed set lies within [0, n); at normal return
\* the processed set is [0, n).
C25_VectorMatchesDataset ==
    /\ batch.phase = "running" =>
          /\ DOMAIN batch.predictions = 0 .. (batch.df.len - 1)
          /\ batch.processed_indices \subseteq 0 .. (batch.df.len - 1)
    /\ batch.retval = "predictions" =>
          batch.processed_indices = 0 .. (batch.df.len - 1)

\* C30: a run resumes only from a snapshot that a run of the same model path
\* over the same dataset wrote, and no save or clear of one job touches a
\* file that holds the snapshot of another job.
C30_JobsIsolated ==
    /\ batch.phase = "running" => batch.from \in {NoJob, BatchJob}
    /\ ~batch.clobbered

\* C26: in pooled mode every worker process constructs its own inference
\* instance exactly once, before its first item; every item is handled with
\* the instance of the process that runs it, so no instance serves two
\* processes; and an item a worker has taken or finished is in the prediction
\* vector, the processed set and the checkpoint only after the orchestrator
\* has collected its result.
C26_WorkersOwnInstances ==
    /\ \A w \in Workers :
          /\ worker[w].inits <= 1
          /\ worker[w].state \in {"idle", "busy"} =>
                worker[w].inits = 1 /\ worker[w].llm = <<w, 1>>
    /\ \A i \in Indices :
          handled[i] # NotHandled =>
              handled[i].llm = <<handled[i].worker, 1>>
    /\ \A i, j \in Indices :
          /\ handled[i] # NotHandled
          /\ handled[i].llm = handled[j].llm
          => handled[i].worker = handled[j].worker
    /\ \A i \in running \cup done \cup failed :
          /\ handled[i] # NotHandled \/ broken
          /\ predictions[i] = None
          /\ i \notin processed_indices
          /\ i \notin checkpoint.processed_indices

\* Both processes have run items with their instances; one result has been
\* collected and written, another waits to be collected.
C26_Witness ==
    /\ \E i, j \in Indices : handled[i].worker = 1 /\ handled[j].worker = 2
    /\ processed_indices # {}
    /\ done # {}

====
